---- MODULE Spec2Model ----
(***************************************************************************)
(* A model of cli/tools/upgrade.rs: upgrade_command and the functions it   *)
(* calls (get_latest_version, download_package, compose_url_to_exec,       *)
(* find_version, unpack, replace_exe, check_exe).                           *)
(*                                                                         *)
(* Text is a sequence of one-character strings.  Every call into the       *)
(* environment (HTTP, filesystem, child processes) is a nondeterministic   *)
(* choice over the results the call can produce.                           *)
(***************************************************************************)
EXTENDS Integers, Sequences, FiniteSets, TLC

(***************************************************************************)
(* Bounds of the model.                                                    *)
(***************************************************************************)
\* the longest redirect chain the release host answers with
MaxRedirects == 2

\* the longest text put before and after a tag reference
MaxPad == 2

(***************************************************************************)
(* Option<T>                                                                *)
(***************************************************************************)
None == [some |-> FALSE, val |-> <<>>]
Some(x) == [some |-> TRUE, val |-> x]

(***************************************************************************)
(* Text helpers                                                             *)
(***************************************************************************)
Digits == <<"0", "1", "2", "3", "4", "5", "6", "7", "8", "9">>

IsDigit(c) == \E i \in 1..10 : Digits[i] = c

DigitVal(c) == (CHOOSE i \in 1..10 : Digits[i] = c) - 1

IsSpace(c) == c \in {" ", "\n", "\t", "\r"}

RECURSIVE TrimStart(_)
TrimStart(s) ==
  IF s # <<>> /\ IsSpace(Head(s)) THEN TrimStart(Tail(s)) ELSE s

RECURSIVE TrimEnd(_)
TrimEnd(s) ==
  IF s # <<>> /\ IsSpace(s[Len(s)]) THEN TrimEnd(SubSeq(s, 1, Len(s) - 1)) ELSE s

\* str::trim
Trim(s) == TrimEnd(TrimStart(s))

\* the pieces of s between the occurrences of sep
RECURSIVE Split(_, _)
Split(s, sep) ==
  IF \E i \in 1..Len(s) : s[i] = sep
  THEN LET i == CHOOSE k \in 1..Len(s) :
                  s[k] = sep /\ \A j \in 1..(k - 1) : s[j] # sep
       IN  <<SubSeq(s, 1, i - 1)>> \o Split(SubSeq(s, i + 1, Len(s)), sep)
  ELSE <<s>>

RECURSIVE NumVal(_)
NumVal(t) ==
  IF t = <<>> THEN 0
  ELSE 10 * NumVal(SubSeq(t, 1, Len(t) - 1)) + DigitVal(t[Len(t)])

RECURSIVE NumStr(_)
NumStr(n) ==
  IF n < 10 THEN <<Digits[n + 1]>>
  ELSE NumStr(n \div 10) \o <<Digits[(n % 10) + 1]>>

(***************************************************************************)
(* semver_parser::version::Version, restricted to major.minor.patch        *)
(* (no input of the model carries pre-release or build identifiers).       *)
(***************************************************************************)
IsNumeric(t) ==
  /\ t # <<>>
  /\ \A i \in 1..Len(t) : IsDigit(t[i])
  /\ (Len(t) > 1 => t[1] # "0")

\* semver_parse: Ok(Version) or Err
semver_parse(s) ==
  LET parts == Split(Trim(s), ".")
  IN  IF Len(parts) = 3 /\ \A i \in 1..3 : IsNumeric(parts[i])
      THEN [ok |-> TRUE,
            ver |-> <<NumVal(parts[1]), NumVal(parts[2]), NumVal(parts[3])>>]
      ELSE [ok |-> FALSE, ver |-> <<>>]

\* Display for Version: "{major}.{minor}.{patch}"
VersionToString(v) ==
  NumStr(v[1]) \o <<".">> \o NumStr(v[2]) \o <<".">> \o NumStr(v[3])

\* the derived ordering: major, then minor, then patch
VersionLess(a, b) ==
  \/ a[1] < b[1]
  \/ a[1] = b[1] /\ a[2] < b[2]
  \/ a[1] = b[1] /\ a[2] = b[2] /\ a[3] < b[3]

VersionGe(a, b) == ~VersionLess(a, b)

\* crate::version::DENO, the version of the running executable
DENO == <<"1", ".", "1", ".", "0">>


(***************************************************************************)
(* find_version: the first match of the regex  v([^\?]+)?"  in text, with  *)
(* its first and last character removed.  The match starts at the first    *)
(* 'v' from which a '"' can be reached without crossing a '?', and the     *)
(* greedy group carries it to the last such '"'.                            *)
(***************************************************************************)
MatchEnds(text, i) ==
  {j \in (i + 1)..Len(text) :
     /\ text[j] = "\""
     /\ \A k \in (i + 1)..(j - 1) : text[k] # "?"}

MatchStarts(text) ==
  {i \in 1..Len(text) : text[i] = "v" /\ MatchEnds(text, i) # {}}

SetMin(S) == CHOOSE x \in S : \A y \in S : x <= y

SetMax(S) == CHOOSE x \in S : \A y \in S : y <= x

\* a default version in place of the NotFound error
find_version_or_default(text) ==
  IF MatchStarts(text) # {}
  THEN LET i == SetMin(MatchStarts(text))
           j == SetMax(MatchEnds(text, i))
       IN  [ok |-> TRUE, val |-> SubSeq(text, i + 1, j - 1), err |-> ""]
  ELSE [ok |-> TRUE, val |-> <<"0", ".", "0", ".", "0">>, err |-> ""]

find_version(text) ==
  IF MatchStarts(text) # {}
  THEN LET i == SetMin(MatchStarts(text))
           j == SetMax(MatchEnds(text, i))
           mat == SubSeq(text, i, j)
       IN  [ok |-> TRUE, val |-> SubSeq(mat, 2, Len(mat) - 1), err |-> ""]
  ELSE [ok |-> FALSE, val |-> <<>>, err |-> "NotFound"]

(***************************************************************************)
(* The inputs of one run and the answers of the environment                *)
(***************************************************************************)
V_1_2_0 == <<"1", ".", "2", ".", "0">>
V_1_0_9 == <<"1", ".", "0", ".", "9">>

\* the values of the `version` argument
VersionArgs ==
  { None, Some(DENO), Some(<<" ">> \o DENO), Some(V_1_2_0), Some(V_1_0_9),
    Some(<<"1", ".", "1">>), Some(<<"v">> \o V_1_2_0) }

\* the path of the running executable (std::env::current_exe)
OldExePath == "bin/deno"

\* old.with_extension("old.exe")
OldExeBackupPath == "bin/deno.old.exe"

\* the values of the `output` argument
OutputArgs == { None, Some("out/deno"), Some(OldExePath) }

\* the values of the `ca_file` argument
CaFileArgs == { None, Some("ca.pem") }

PagePrefix == <<"<", "a", " ", "h", "r", "e", "f", "=", "\"", "t", "a", "g", "/">>
PageSuffix == <<">", "r", "e", "d", "i", "r", "<", "/", "a", ">">>

\* a release page that links to the tag v<tag>
PageOf(tag) == PagePrefix \o <<"v">> \o tag \o <<"\"">> \o PageSuffix

\* the bodies the "latest release" page answers with
Pages ==
  { PageOf(V_1_2_0), PageOf(DENO), PageOf(V_1_0_9),
    <<"<", "h", "t", "m", "l", ">">>,
    PageOf(<<>>),
    PagePrefix \o <<"v">> \o V_1_2_0
      \o <<"\"", " ", "i", "d", "=", "\"", "x", "\"", ">">>,
    PagePrefix \o <<"v">> \o V_1_2_0 \o <<"?", "x", "\"", ">">> }

\* cfg!(windows) goes with the TARGET the executable was built for
TARGET(win) ==
  IF win THEN "x86_64-pc-windows-msvc" ELSE "x86_64-unknown-linux-gnu"

\* ARCHIVE_NAME = format!("deno-{}.zip", env!("TARGET")), as its pieces
ARCHIVE_NAME(win) == <<"deno-", TARGET(win), ".", "zip">>

\* compose_url_to_exec
compose_url_to_exec(ver, win) ==
  [base |-> "https://github.com/denoland/deno/releases/download",
   tag  |-> <<"v">> \o VersionToString(ver),
   file |-> ARCHIVE_NAME(win)]

NoUrl == [base |-> "", tag |-> <<>>, file |-> <<>>]

\* the locations a Redirect answer names
RedirectLocations ==
  { [base |-> b, tag |-> <<>>, file |-> <<"blob">>] : b \in {"cdn1", "cdn2"} }

\* the archive bodies a Code answer carries
Bodies == {"zipA", "zipB"}

\* FetchOnceResult, and Err for a transport error
FetchOutcomes ==
  { [kind |-> "Code", body |-> b, url |-> NoUrl] : b \in Bodies }
  \cup { [kind |-> "NotModified", body |-> "", url |-> NoUrl] }
  \cup { [kind |-> "Redirect", body |-> "", url |-> u] : u \in RedirectLocations }
  \cup { [kind |-> "Err", body |-> "", url |-> NoUrl] }

(***************************************************************************)
(* Files                                                                    *)
(***************************************************************************)
NoFile == [exists |-> FALSE, bytes |-> "", perm |-> ""]

File(b, p) == [exists |-> TRUE, bytes |-> b, perm |-> p]

\* the staging directory of unpack and the two files it holds
TempDir == "tmp"
\* temp_dir.join("deno").with_extension(exe_ext)
TempExePath(win) == IF win THEN "tmp/deno.exe" ELSE "tmp/deno"
TempZipPath == "tmp/deno.zip"

Paths ==
  { OldExePath, OldExeBackupPath, "out/deno", TempDir, TempExePath(TRUE),
    TempExePath(FALSE), TempZipPath }

\* the filesystem before the run: the running executable and nothing else
InitFs ==
  [p \in Paths |-> IF p = OldExePath THEN File("old", "r-xr-xr-x") ELSE NoFile]

VARIABLES
  dry_run, force, version, output, ca_file,  \* the arguments of upgrade_command
  windows,          \* cfg!(windows)
  pc,               \* the statement upgrade_command is at
  outcome,          \* "running", "ok", "err", "exit1" or "panic"
  error,            \* the error value of an Err return
  install_version,  \* the resolved target version
  url,              \* the url the next fetch_once goes to
  fetches,          \* the urls fetch_once was called with, in order
  responses,        \* the answers fetch_once gave, in order
  latest_queries,   \* the number of requests to the "latest release" page
  latest_body,      \* the body the "latest release" page answered with
  latest_version,   \* the version get_latest_version returned
  tag_found,        \* what find_version returned
  unpacked,         \* how the extraction of unpack went
  archive_data,     \* the bytes download_package returned
  fs,               \* the filesystem
  checked,          \* what check_exe saw of the staged executable
  stages,           \* the stages executed, in order
  printed           \* the messages printed, in order

inputs == <<dry_run, force, version, output, ca_file, windows>>

vars ==
  <<dry_run, force, version, output, ca_file, windows, pc, outcome, error,
    install_version, url, fetches, responses, latest_queries, latest_body,
    latest_version, tag_found, unpacked, archive_data, fs, checked, stages,
    printed>>

\* find_version not called
NotSearched == [ok |-> FALSE, val |-> <<>>, err |-> ""]

\* unpack not called
NotUnpacked ==
  [ran |-> FALSE, io |-> "", status_ok |-> FALSE, exe_exists |-> FALSE]

NotChecked ==
  [ran |-> FALSE, bytes |-> "", utf8 |-> FALSE, status_ok |-> FALSE,
   stdout |-> <<>>]

Init ==
  /\ dry_run \in BOOLEAN
  /\ force \in BOOLEAN
  /\ version \in VersionArgs
  /\ output \in OutputArgs
  /\ ca_file \in CaFileArgs
  /\ windows \in BOOLEAN
  /\ pc = "build_client"
  /\ outcome = "running"
  /\ error = ""
  /\ install_version = <<>>
  /\ url = NoUrl
  /\ fetches = <<>>
  /\ responses = <<>>
  /\ latest_queries = 0
  /\ latest_body = None
  /\ latest_version = <<>>
  /\ tag_found = NotSearched
  /\ unpacked = NotUnpacked
  /\ archive_data = ""
  /\ fs = InitFs
  /\ checked = NotChecked
  /\ stages = <<>>
  /\ printed = <<>>

\* semver_parse(crate::version::DENO).unwrap()
current_version == semver_parse(DENO).ver

(***************************************************************************)
(* The ways upgrade_command ends                                            *)
(***************************************************************************)
\* return Ok(())
ReturnOk ==
  /\ pc' = "done"
  /\ outcome' = "ok"
  /\ error' = ""

\* the ? operator: return Err(e)
ReturnErr(e) ==
  /\ pc' = "done"
  /\ outcome' = "err"
  /\ error' = e

\* std::process::exit(1)
Exit1 ==
  /\ pc' = "done"
  /\ outcome' = "exit1"
  /\ error' = ""

\* unwrap on Err/None, assert!, assert_eq!, unreachable!, panic!
Panic ==
  /\ pc' = "done"
  /\ outcome' = "panic"
  /\ error' = ""

Goto(l) ==
  /\ pc' = l
  /\ UNCHANGED <<outcome, error>>

(***************************************************************************)
(* upgrade_command, lines 59-68: the HTTP client                            *)
(***************************************************************************)
CaFileResults == {"unreadable", "bad_pem", "ok"}

BuildClient ==
  /\ pc = "build_client"
  /\ \E read \in CaFileResults, built \in BOOLEAN :
       IF ca_file.some /\ read = "unreadable" THEN Panic
       ELSE IF ca_file.some /\ read = "bad_pem" THEN ReturnErr("reqwest")
       ELSE IF ~built THEN ReturnErr("reqwest")
       ELSE Goto("resolve")
  /\ UNCHANGED <<inputs, install_version, url, fetches, responses,
                 latest_queries, latest_body, latest_version, tag_found, unpacked,
                 archive_data,
                 fs, checked, stages, printed>>

(***************************************************************************)
(* upgrade_command, lines 72-86: an explicit version                        *)
(***************************************************************************)
\* the flag inverted
AlreadyInstalledForced(frc, cur, ver) == frc /\ cur = ver

\* the flag left out
AlreadyInstalledAnyway(frc, cur, ver) == cur = ver

\* the test of the latest-version path used for an explicit version
AlreadyInstalledOrOlder(frc, cur, ver) == ~frc /\ VersionGe(cur, ver)

\* if !force && current_version == ver
AlreadyInstalled(frc, cur, ver) == ~frc /\ cur = ver

\* the error printed and the run ended as a success
InvalidSemverIgnored ==
  /\ ReturnOk
  /\ printed' = Append(printed, "invalid_semver")

\* Err(_) => { eprintln!("Invalid semver passed"); std::process::exit(1) }
InvalidSemver ==
  /\ Exit1
  /\ printed' = Append(printed, "invalid_semver")

ResolveExplicit ==
  /\ pc = "resolve"
  /\ version.some
  /\ LET parsed == semver_parse(version.val)
     IN  IF parsed.ok
         THEN IF AlreadyInstalled(force, current_version, parsed.ver)
              THEN /\ ReturnOk
                   /\ printed' = Append(printed, "already_installed")
                   /\ UNCHANGED <<install_version, url>>
              ELSE /\ Goto("download")
                   /\ install_version' = parsed.ver
                   /\ url' = compose_url_to_exec(parsed.ver, windows)
                   /\ UNCHANGED printed
         ELSE /\ InvalidSemver
              /\ UNCHANGED <<install_version, url>>
  /\ stages' = Append(stages, "resolve")
  /\ UNCHANGED <<inputs, fetches, responses, latest_queries, latest_body,
                 latest_version, tag_found, unpacked, archive_data, fs, checked>>

(***************************************************************************)
(* get_latest_version, and upgrade_command, lines 87-99                     *)
(***************************************************************************)
\* what the GET of the "latest release" page gives: a transport error or a body
LatestAnswers ==
  { [ok |-> FALSE, body |-> <<>>] } \cup { [ok |-> TRUE, body |-> b] : b \in Pages }

\* the parse error returned to the caller
LatestUnparsableReturned ==
  /\ ReturnErr("semver")
  /\ printed' = Append(printed, "checking_latest")

\* Ok(semver_parse(&v).unwrap()) on a token that does not parse
LatestUnparsable ==
  /\ Panic
  /\ printed' = Append(printed, "checking_latest")

\* the latest-version test written as the explicit-version test
UpToDateEqualOnly(frc, cur, latest) == ~frc /\ cur = latest

\* > in place of >=
UpToDateStrict(frc, cur, latest) == ~frc /\ VersionLess(latest, cur)

\* if !force && current_version >= latest_version
UpToDate(frc, cur, latest) == ~frc /\ VersionGe(cur, latest)

ResolveLatest ==
  /\ pc = "resolve"
  /\ ~version.some
  /\ latest_queries' = latest_queries + 1
  /\ stages' = Append(stages, "resolve")
  /\ \E ans \in LatestAnswers :
       LET found == find_version(ans.body)
           parsed == semver_parse(found.val)
       IN  /\ latest_body' = IF ans.ok THEN Some(ans.body) ELSE None
           /\ tag_found' = IF ans.ok THEN found ELSE tag_found
           /\ latest_version' = IF ans.ok /\ found.ok /\ parsed.ok
                                THEN parsed.ver
                                ELSE <<>>
           /\ IF ~ans.ok
              THEN /\ ReturnErr("reqwest")
                   /\ printed' = Append(printed, "checking_latest")
                   /\ UNCHANGED <<install_version, url>>
              ELSE IF ~found.ok
              THEN /\ ReturnErr(found.err)
                   /\ printed' = Append(printed, "checking_latest")
                   /\ UNCHANGED <<install_version, url>>
              ELSE IF ~parsed.ok
              THEN /\ LatestUnparsable
                   /\ UNCHANGED <<install_version, url>>
              ELSE IF UpToDate(force, current_version, parsed.ver)
              THEN /\ ReturnOk
                   /\ printed' = printed \o <<"checking_latest", "most_recent">>
                   /\ UNCHANGED <<install_version, url>>
              ELSE /\ Goto("download")
                   /\ install_version' = parsed.ver
                   /\ url' = compose_url_to_exec(parsed.ver, windows)
                   /\ printed' = Append(printed, "checking_latest")
  /\ UNCHANGED <<inputs, fetches, responses, unpacked, archive_data, fs,
                 checked>>

(***************************************************************************)
(* download_package: one fetch_once per step, recursing on Redirect         *)
(***************************************************************************)
Redirects(rs) == Cardinality({i \in 1..Len(rs) : rs[i].kind = "Redirect"})

\* the recursion on the url just fetched
RedirectTargetSame(cur, res) == cur

\* FetchOnceResult::Redirect(_url, _) => download_package(&_url, ...)
RedirectTarget(cur, res) == res.url

\* FetchOnceResult::Code(source, _) => Ok(source)
DownloadedSource(res) == res.body

\* the fetch tried again
FetchFailedRetry ==
  /\ Goto("download")
  /\ printed' = printed \o <<"downloading", "not_found_aborting">>

\* Err(_) => { println!("Version has not been found, aborting"); exit(1) }
FetchFailed ==
  /\ Exit1
  /\ printed' = printed \o <<"downloading", "not_found_aborting">>

DownloadPackage ==
  /\ pc = "download"
  /\ fetches' = Append(fetches, url)
  /\ stages' = IF fetches = <<>> THEN Append(stages, "download") ELSE stages
  /\ \E res \in FetchOutcomes :
       /\ res.kind = "Redirect" => Redirects(responses) < MaxRedirects
       /\ responses' = Append(responses, res)
       /\ IF res.kind = "Err"
          THEN /\ FetchFailed
               /\ UNCHANGED <<url, archive_data>>
          ELSE /\ printed' = printed \o <<"downloading", "version_found">>
               /\ IF res.kind = "Code"
                  THEN /\ Goto("unpack")
                       /\ archive_data' = DownloadedSource(res)
                       /\ UNCHANGED url
                  ELSE IF res.kind = "NotModified"
                  THEN /\ Panic
                       /\ UNCHANGED <<url, archive_data>>
                  ELSE /\ Goto("download")
                       /\ url' = RedirectTarget(url, res)
                       /\ UNCHANGED archive_data
  /\ UNCHANGED <<inputs, install_version, latest_queries, latest_body,
                 latest_version, tag_found, unpacked, fs, checked>>

(***************************************************************************)
(* upgrade_command, lines 108-109, and unpack                               *)
(***************************************************************************)
\* Path::new(&*ARCHIVE_NAME).extension()
archive_ext(name) ==
  IF Len(name) >= 2 /\ name[Len(name) - 1] = "." THEN name[Len(name)] ELSE ""

\* the executable a release archive holds
Payload(body) == IF body = "zipA" THEN "exeA" ELSE "exeB"

\* the I/O call of unpack that fails, if one does
UnpackIoResults == {"current_exe", "tempdir", "write", "spawn", "wait", "none"}

\* the permission bits an extracted file can come out with
ExtractedPerms == {"rwxr-xr-x", "rw-r--r--"}

\* the second assertion left out
UnpackAssertsStatusOnly(status_ok, exe_exists) == status_ok

\* both assertions left out
UnpackAssertsNone(status_ok, exe_exists) == TRUE

\* assert!(unpack_status.success()); assert!(exe_path.exists());
UnpackAsserts(status_ok, exe_exists) == status_ok /\ exe_exists

Unpack ==
  /\ pc = "unpack"
  /\ stages' = Append(stages, "unpack")
  /\ \E io \in UnpackIoResults, status_ok \in BOOLEAN, exe_there \in BOOLEAN,
        partial \in BOOLEAN, perm \in ExtractedPerms :
       LET ext == archive_ext(ARCHIVE_NAME(windows))
           exe_path == TempExePath(windows)
           dir == [fs EXCEPT ![TempDir] = File("dir", "rwx------")]
           zip == [dir EXCEPT ![TempZipPath] = File(archive_data, "rw-r--r--")]
           zip_cut == [dir EXCEPT ![TempZipPath] = File("truncated", "rw-r--r--")]
           staged == File(Payload(archive_data), perm)
           cut == File("truncated", perm)
           \* the staging directory once unzip (powershell.exe on Windows)
           \* has run
           extracted(base) ==
             IF exe_there
             THEN [base EXCEPT ![exe_path] = IF status_ok THEN staged ELSE cut]
             ELSE base
       IN  /\ unpacked' =
                [ran |-> TRUE, io |-> io,
                 status_ok |-> io = "none" /\ status_ok,
                 exe_exists |-> io = "none" /\ (ext = "gz" \/ exe_there)]
           /\ IF io = "current_exe" \/ io = "tempdir"
              THEN ReturnErr("io") /\ fs' = fs
              \* assert!(!exe_path.exists()): the directory is a new one
              ELSE IF fs[exe_path].exists
              THEN Panic /\ fs' = dir
              ELSE IF ext = "gz"
              THEN IF io = "write" THEN ReturnErr("io") /\ fs' = dir
                   ELSE IF io = "spawn" \/ io = "wait"
                   THEN ReturnErr("io") /\ fs' = [dir EXCEPT ![exe_path] = cut]
                   ELSE /\ fs' = [dir EXCEPT
                                     ![exe_path] = IF status_ok THEN staged ELSE cut]
                        /\ IF UnpackAsserts(status_ok, TRUE)
                           THEN Goto("permissions")
                           ELSE Panic
              ELSE IF ext = "zip"
              THEN IF io = "write"
                   THEN ReturnErr("io") /\ fs' = IF partial THEN zip_cut ELSE dir
                   ELSE IF io = "spawn" THEN ReturnErr("io") /\ fs' = zip
                   ELSE IF io = "wait" THEN ReturnErr("io") /\ fs' = extracted(zip)
                   ELSE /\ fs' = extracted(zip)
                        /\ IF UnpackAsserts(status_ok, exe_there)
                           THEN Goto("permissions")
                           ELSE Panic
              ELSE Panic /\ fs' = dir
  /\ UNCHANGED <<inputs, install_version, url, fetches, responses,
                 latest_queries, latest_body, latest_version, tag_found, archive_data,
                 checked, printed>>

(***************************************************************************)
(* upgrade_command, lines 110-111: the old executable's permissions         *)
(***************************************************************************)
PermissionIoResults == {"metadata", "set_permissions", "none"}

CopyPermissions ==
  /\ pc = "permissions"
  /\ stages' = Append(stages, "permissions")
  /\ \E io \in PermissionIoResults :
       IF io = "none"
       THEN /\ Goto("check")
            /\ fs' = [fs EXCEPT ![TempExePath(windows)].perm = fs[OldExePath].perm]
       ELSE /\ ReturnErr("io")
            /\ fs' = fs
  /\ UNCHANGED <<inputs, install_version, url, fetches, responses,
                 latest_queries, latest_body, latest_version, tag_found, unpacked,
                 archive_data,
                 checked, printed>>

(***************************************************************************)
(* check_exe                                                                *)
(***************************************************************************)
DenoSp == <<"d", "e", "n", "o", " ">>

\* format!("deno {}", expected_version)
ExpectedOutput(ver) == DenoSp \o VersionToString(ver)

\* what the staged executable can print for -V
Stdouts ==
  { DenoSp \o v \o <<"\n">> : v \in {DENO, V_1_2_0, V_1_0_9} }
  \cup { DenoSp \o V_1_2_0,
         <<" ">> \o DenoSp \o V_1_2_0 \o <<"\r", "\n">>,
         DenoSp \o <<" ">> \o V_1_2_0 \o <<"\n">>,
         DenoSp \o V_1_2_0 \o <<"-", "r", "c", "\n">>,
         <<>> }

\* the comparison of the version left out
CheckAssertsStatusOnly(status_ok, stdout, ver) == status_ok

\* assert!(output.status.success()); assert_eq!(stdout.trim(), format!(...));
CheckAsserts(status_ok, stdout, ver) ==
  /\ status_ok
  /\ Trim(stdout) = ExpectedOutput(ver)

CheckExe ==
  /\ pc = "check"
  /\ stages' = Append(stages, "check")
  /\ \E spawned \in BOOLEAN, utf8 \in BOOLEAN, status_ok \in BOOLEAN,
        stdout \in Stdouts :
       IF ~spawned
       THEN /\ ReturnErr("io")
            /\ UNCHANGED checked
       ELSE /\ checked' = [ran |-> TRUE,
                           bytes |-> fs[TempExePath(windows)].bytes,
                           utf8 |-> utf8,
                           status_ok |-> status_ok,
                           stdout |-> IF utf8 THEN stdout ELSE <<>>]
            /\ IF ~utf8 THEN ReturnErr("utf8")
               ELSE IF CheckAsserts(status_ok, stdout, install_version)
               THEN Goto("swap")
               ELSE Panic
  /\ UNCHANGED <<inputs, install_version, url, fetches, responses,
                 latest_queries, latest_body, latest_version, tag_found, unpacked,
                 archive_data,
                 fs, printed>>

(***************************************************************************)
(* upgrade_command, lines 114-126, and replace_exe                          *)
(***************************************************************************)
\* the error of the failed copy dropped
RenameOrCopyIgnoreError(f, from, to, rename_ok, copy_ok, partial) ==
  IF rename_ok
  THEN [ok |-> TRUE, fs |-> [f EXCEPT ![to] = f[from], ![from] = NoFile]]
  ELSE IF copy_ok
  THEN [ok |-> TRUE, fs |-> [f EXCEPT ![to] = f[from]]]
  ELSE [ok |-> TRUE,
        fs |-> IF partial
               THEN [f EXCEPT ![to] = File("truncated", f[from].perm)]
               ELSE f]

\* the two paths exchanged
RenameOrCopySwapped(f, from, to, rename_ok, copy_ok, partial) ==
  IF rename_ok
  THEN [ok |-> TRUE, fs |-> [f EXCEPT ![from] = f[to], ![to] = NoFile]]
  ELSE IF copy_ok
  THEN [ok |-> TRUE, fs |-> [f EXCEPT ![from] = f[to]]]
  ELSE [ok |-> FALSE, fs |-> f]

\* fs::rename(from, to).or_else(|_| fs::copy(from, to).map(|_| ()))
\* a failed copy leaves the destination as it was or truncated
RenameOrCopy(f, from, to, rename_ok, copy_ok, partial) ==
  IF rename_ok
  THEN [ok |-> TRUE, fs |-> [f EXCEPT ![to] = f[from], ![from] = NoFile]]
  ELSE IF copy_ok
  THEN [ok |-> TRUE, fs |-> [f EXCEPT ![to] = f[from]]]
  ELSE [ok |-> FALSE,
        fs |-> IF partial
               THEN [f EXCEPT ![to] = File("truncated", f[from].perm)]
               ELSE f]

\* dry_run not consulted
SwapAlways == TRUE

\* if !dry_run { ... }
SwapEnabled == ~dry_run

\* dry_run: the swap is skipped
FinishDryRun ==
  /\ pc = "swap"
  /\ ~SwapEnabled
  /\ ReturnOk
  /\ printed' = Append(printed, "upgrade_done")
  /\ UNCHANGED <<inputs, install_version, url, fetches, responses,
                 latest_queries, latest_body, latest_version, tag_found, unpacked,
                 archive_data,
                 fs, checked, stages>>

\* Some(path): the new executable goes to the output path
InstallToOutput ==
  /\ pc = "swap"
  /\ SwapEnabled
  /\ output.some
  /\ stages' = Append(stages, "swap")
  /\ \E rename_ok \in BOOLEAN, copy_ok \in BOOLEAN, partial \in BOOLEAN :
       LET r == RenameOrCopy(fs, TempExePath(windows), output.val,
                             rename_ok, copy_ok, partial)
       IN  /\ fs' = r.fs
           /\ IF r.ok
              THEN ReturnOk /\ printed' = Append(printed, "upgrade_done")
              ELSE ReturnErr("io") /\ UNCHANGED printed
  /\ UNCHANGED <<inputs, install_version, url, fetches, responses,
                 latest_queries, latest_body, latest_version, tag_found, unpacked,
                 archive_data,
                 checked>>

\* the old executable copied aside, and left where it is
MoveOldAsideKeep(f, old, win) ==
  IF win THEN [f EXCEPT ![OldExeBackupPath] = f[old]] ELSE f

\* cfg!(windows) not consulted: the old executable always removed
MoveOldAsideAlwaysRemove(f, old, win) == [f EXCEPT ![old] = NoFile]

\* the first step of replace_exe: the old executable is moved aside on
\* Windows and removed elsewhere
MoveOldAside(f, old, win) ==
  IF win
  THEN [f EXCEPT ![OldExeBackupPath] = f[old], ![old] = NoFile]
  ELSE [f EXCEPT ![old] = NoFile]

\* None: replace_exe(&new_exe_path, &old_exe_path)
ReplaceExe ==
  /\ pc = "swap"
  /\ SwapEnabled
  /\ ~output.some
  /\ stages' = Append(stages, "swap")
  /\ \E first_ok \in BOOLEAN, rename_ok \in BOOLEAN, copy_ok \in BOOLEAN,
        partial \in BOOLEAN :
       IF ~first_ok
       THEN /\ ReturnErr("io")
            /\ UNCHANGED <<fs, printed>>
       ELSE LET r == RenameOrCopy(MoveOldAside(fs, OldExePath, windows),
                                  TempExePath(windows), OldExePath,
                                  rename_ok, copy_ok, partial)
            IN  /\ fs' = r.fs
                /\ IF r.ok
                   THEN ReturnOk /\ printed' = Append(printed, "upgrade_done")
                   ELSE ReturnErr("io") /\ UNCHANGED printed
  /\ UNCHANGED <<inputs, install_version, url, fetches, responses,
                 latest_queries, latest_body, latest_version, tag_found, unpacked,
                 archive_data,
                 checked>>

Next ==
  \/ BuildClient
  \/ ResolveExplicit
  \/ ResolveLatest
  \/ DownloadPackage
  \/ Unpack
  \/ CopyPermissions
  \/ CheckExe
  \/ FinishDryRun
  \/ InstallToOutput
  \/ ReplaceExe

Spec == Init /\ [][Next]_vars

(***************************************************************************)
(* find_version on its own, as test_find_version calls it: on every text   *)
(* made of a tag reference v<version>" with a short text before and after  *)
(***************************************************************************)
PadChars == {"a", "v", "\"", "?", " "}

Pads == UNION { [1..n -> PadChars] : n \in 0..MaxPad }

TagVersions == {V_1_2_0, DENO}

\* the text with the tag reference v<ver>" between pre and post
Tagged(pre, ver, post) == pre \o <<"v">> \o ver \o <<"\"">> \o post

TaggedTexts ==
  { Tagged(pre, ver, post) : pre \in Pads, ver \in TagVersions, post \in Pads }

InitFind ==
  /\ dry_run = FALSE
  /\ force = FALSE
  /\ version = None
  /\ output = None
  /\ ca_file = None
  /\ windows = FALSE
  /\ pc = "find_version"
  /\ outcome = "running"
  /\ error = ""
  /\ install_version = <<>>
  /\ url = NoUrl
  /\ fetches = <<>>
  /\ responses = <<>>
  /\ latest_queries = 0
  /\ latest_body \in { Some(t) : t \in TaggedTexts }
  /\ latest_version = <<>>
  /\ tag_found = NotSearched
  /\ unpacked = NotUnpacked
  /\ archive_data = ""
  /\ fs = InitFs
  /\ checked = NotChecked
  /\ stages = <<>>
  /\ printed = <<>>

\* find_version(text)
FindVersion ==
  /\ pc = "find_version"
  /\ pc' = "done"
  /\ tag_found' = find_version(latest_body.val)
  /\ UNCHANGED <<inputs, outcome, error, install_version, url, fetches,
                 responses, latest_queries, latest_body, latest_version,
                 unpacked, archive_data, fs, checked, stages, printed>>

NextFind == FindVersion

SpecFind == InitFind /\ [][NextFind]_vars

(***************************************************************************)
(* Properties                                                               *)
(***************************************************************************)
InStages(x) == \E i \in 1..Len(stages) : stages[i] = x

WasPrinted(m) == \E i \in 1..Len(printed) : printed[i] = m

\* the paths an installation can write to
InstallPaths == {OldExePath, OldExeBackupPath, "out/deno"}

\* where the new executable is to go
InstallTarget == IF output.some THEN output.val ELSE OldExePath

NoNetwork == latest_queries = 0 /\ fetches = <<>>

\* check_exe ran, the child exited with success and printed "deno <target>"
CheckPassed ==
  /\ checked.ran
  /\ checked.utf8
  /\ checked.status_ok
  /\ Trim(checked.stdout) = ExpectedOutput(install_version)

\* C1: the installed executable or the output path is written only after
\* check_exe ran on the staged binary, its process exited with success and its
\* trimmed stdout was "deno <target version>"; a staged executable that prints
\* any other version string makes the run panic, and the swap is never reached.
C1_InstallOnlyAfterCheck ==
  /\ (\E p \in InstallPaths : fs[p] # InitFs[p]) => CheckPassed
  /\ \A p \in InstallPaths :
       (fs[p].exists /\ fs[p].bytes \notin {"old", "truncated"})
         => fs[p].bytes = checked.bytes
  /\ (checked.ran /\ checked.utf8
        /\ Trim(checked.stdout) # ExpectedOutput(install_version))
       => /\ pc = "done"
          /\ outcome = "panic"
          /\ ~InStages("swap")
          /\ \A p \in InstallPaths : fs[p] = InitFs[p]

C1_Witness ==
  /\ outcome = "ok"
  /\ ~dry_run
  /\ ~output.some
  /\ fs[OldExePath].exists
  /\ fs[OldExePath].bytes = "exeA"
  /\ checked.stdout = <<" ">> \o DenoSp \o V_1_2_0 \o <<"\r", "\n">>

\* C2: with dry_run the running executable keeps its bytes and permissions in
\* every state of the run, however the run ends and whether or not an output
\* path was given, and nothing is written to the output path.
C2_DryRunLeavesExecutable ==
  dry_run => \A p \in InstallPaths : fs[p] = InitFs[p]

C2_Witness ==
  /\ dry_run
  /\ output.some
  /\ outcome = "ok"
  /\ CheckPassed
  /\ fs[TempExePath(windows)].exists

\* the explicit version parses and equals the current version
ExplicitCurrent ==
  /\ version.some
  /\ semver_parse(version.val).ok
  /\ semver_parse(version.val).ver = current_version

\* C3: with an explicit version that parses and equals the current version and
\* force unset, the run makes no network call and changes nothing on the
\* filesystem, and version resolution ends it with success.
C3_AlreadyCurrentNoOp ==
  (ExplicitCurrent /\ ~force)
    => /\ NoNetwork
       /\ fs = InitFs
       /\ InStages("resolve") => (pc = "done" /\ outcome = "ok")
       /\ outcome = "ok"
            => (stages = <<"resolve">> /\ WasPrinted("already_installed"))

C3_Witness ==
  /\ ExplicitCurrent
  /\ ~force
  /\ version.val # DENO
  /\ outcome = "ok"

\* the code is past version resolution, on its way to download_package or after
PastResolution == install_version # <<>>

\* C4 as stated: past version resolution the target version is strictly
\* greater than the current version, or force is set.
C4_Original ==
  PastResolution
    => (VersionLess(current_version, install_version) \/ force)

\* C4, amended: past version resolution force is set, or the target is the
\* latest version and strictly greater than the current version, or the
\* target was given explicitly and differs from the current version.
C4_ProceedsOnlyWhenNeeded ==
  PastResolution
    => \/ force
       \/ ~version.some /\ VersionLess(current_version, install_version)
       \/ version.some /\ install_version # current_version

C4_Witness ==
  /\ PastResolution
  /\ ~force
  /\ version.some
  /\ VersionLess(install_version, current_version)
  /\ pc = "download"

\* the last answer of fetch_once was a Code
ChainEnded ==
  /\ responses # <<>>
  /\ responses[Len(responses)].kind = "Code"
  /\ \A i \in 1..(Len(responses) - 1) : responses[i].kind = "Redirect"

\* C5: after N Redirect answers and one Code answer download_package has
\* returned the body of the Code answer, after exactly N+1 calls of fetch_once,
\* the first on the composed url and each later one on the location the
\* answer before it named.
C5_RedirectChain ==
  ChainEnded
    => /\ pc # "download"
       /\ archive_data = responses[Len(responses)].body
       /\ Len(fetches) = Redirects(responses) + 1
       /\ fetches[1] = compose_url_to_exec(install_version, windows)
       /\ \A i \in 2..Len(fetches) : fetches[i] = responses[i - 1].url

C5_Witness ==
  /\ ChainEnded
  /\ Redirects(responses) >= 2
  /\ responses[1].url # responses[2].url
  /\ archive_data = "zipB"

\* the stages of a complete run
FullRun ==
  <<"resolve", "download", "unpack", "permissions", "check">>
    \o (IF dry_run THEN <<>> ELSE <<"swap">>)

\* C6: with force and an explicit version equal to the current version the run
\* does not take the no-op path: version resolution hands over to
\* download_package, and a run that ends with success went through download,
\* unpack, verification and, unless dry_run, installation.
C6_ForceReinstalls ==
  (ExplicitCurrent /\ force)
    => /\ ~WasPrinted("already_installed")
       /\ InStages("resolve")
            => (PastResolution /\ (pc = "done" => InStages("download")))
       /\ outcome = "ok"
            => /\ stages = FullRun
               /\ CheckPassed
               /\ ~dry_run => /\ fs[InstallTarget].exists
                              /\ fs[InstallTarget].bytes = Payload(archive_data)

C6_Witness ==
  /\ ExplicitCurrent
  /\ force
  /\ ~dry_run
  /\ outcome = "ok"
  /\ fetches # <<>>
  /\ fs[InstallTarget].bytes = "exeB"

\* C7: with no version given, force unset and a latest version that is less
\* than or equal to the current version, the run ends with success after the
\* one query of the release page: no archive is fetched, no staging directory
\* is made and the installed executable is not touched.
C7_LatestNotNewer ==
  (~version.some /\ ~force /\ latest_version # <<>>
     /\ VersionGe(current_version, latest_version))
    => /\ pc = "done"
       /\ outcome = "ok"
       /\ latest_queries = 1
       /\ fetches = <<>>
       /\ fs = InitFs
       /\ stages = <<"resolve">>

C7_Witness ==
  /\ ~version.some
  /\ ~force
  /\ latest_version = current_version
  /\ outcome = "ok"

\* C8: a transport error of a fetch_once call of download_package, the first
\* or one after a redirect, ends the process with exit code 1: that fetch is
\* the last one, and no unpack, verification or swap is executed.
C8_FetchErrorExits ==
  \A i \in 1..Len(responses) :
    responses[i].kind = "Err"
      => /\ pc = "done"
         /\ outcome = "exit1"
         /\ i = Len(responses)
         /\ Len(fetches) = i
         /\ stages = <<"resolve", "download">>
         /\ fs = InitFs
         /\ ~checked.ran

C8_Witness ==
  /\ Len(responses) = 2
  /\ responses[1].kind = "Redirect"
  /\ responses[2].kind = "Err"
  /\ outcome = "exit1"

\* the explicit version does not parse
ExplicitInvalid == version.some /\ ~semver_parse(version.val).ok

\* C9: an explicit version that does not parse as a semantic version ends the
\* process with a non-zero exit code at version resolution, whatever force and
\* dry_run are, with no network request made and nothing changed on the
\* filesystem.
C9_InvalidSemverExits ==
  ExplicitInvalid
    => /\ NoNetwork
       /\ fs = InitFs
       /\ outcome # "ok"
       /\ InStages("resolve") => (pc = "done" /\ outcome = "exit1")
       /\ ~InStages("download")

C9_Witness ==
  /\ ExplicitInvalid
  /\ force
  /\ dry_run
  /\ outcome = "exit1"
  /\ WasPrinted("invalid_semver")

\* C10: with no version given and a release page that holds no version tag,
\* the run returns the error NotFound, with no default version taken, and no
\* download, unpack, verification or swap happens.
C10_NoTagIsNotFound ==
  (latest_body.some /\ MatchStarts(latest_body.val) = {})
    => /\ pc = "done"
       /\ outcome = "err"
       /\ error = "NotFound"
       /\ ~PastResolution
       /\ latest_version = <<>>
       /\ fetches = <<>>
       /\ fs = InitFs
       /\ stages = <<"resolve">>

C10_Witness ==
  /\ latest_body.some
  /\ \E i \in 1..Len(latest_body.val) : latest_body.val[i] = "v"
  /\ MatchStarts(latest_body.val) = {}
  /\ error = "NotFound"

\* the verified executable, with the permissions of the old one
NewExe == File(Payload(archive_data), InitFs[OldExePath].perm)

\* the number of true entries of a tuple of booleans
CountTrue(t) == Cardinality({i \in 1..Len(t) : t[i]})

\* success with nothing downloaded and nothing changed
AlreadyCurrent ==
  /\ outcome = "ok"
  /\ ~PastResolution
  /\ stages = <<"resolve">>
  /\ fetches = <<>>
  /\ fs = InitFs

\* success with the verified executable at its destination
Upgraded ==
  /\ outcome = "ok"
  /\ PastResolution
  /\ InStages("swap")
  /\ CheckPassed
  /\ fs[InstallTarget] = NewExe

\* success of a dry run: verified, nothing installed
DryRunVerified ==
  /\ outcome = "ok"
  /\ dry_run
  /\ PastResolution
  /\ CheckPassed
  /\ ~InStages("swap")
  /\ \A p \in InstallPaths : fs[p] = InitFs[p]

\* an Err return, exit(1) or a panic
Fatal == outcome \in {"err", "exit1", "panic"}

\* C11 as stated: a run ends in exactly one of AlreadyCurrent, Upgraded and
\* Fatal.
C11_Original ==
  pc = "done" => CountTrue(<<AlreadyCurrent, Upgraded, Fatal>>) = 1

\* C11, amended: a run ends in exactly one of AlreadyCurrent, Upgraded, Fatal
\* and, with dry_run, the success of a verified run that installed nothing;
\* until it ends it reports nothing.
C11_TerminalStates ==
  /\ pc = "done"
       => CountTrue(<<AlreadyCurrent, Upgraded, DryRunVerified, Fatal>>) = 1
  /\ pc # "done" => outcome = "running"
  /\ DryRunVerified => dry_run

C11_Witness ==
  /\ pc = "done"
  /\ DryRunVerified
  /\ WasPrinted("upgrade_done")

\* the stages before the swap
PreSwap == <<"resolve", "download", "unpack", "permissions", "check">>

IsPrefix(a, b) == Len(a) <= Len(b) /\ a = SubSeq(b, 1, Len(a))

\* C12: a dry run with a resolved target goes through download, unpack,
\* permission copy and verification like any other run, never runs the swap,
\* and ends with success once the verification passed: it fails only at a
\* stage before the swap.
C12_DryRunVerifiesOnly ==
  /\ IsPrefix(stages, PreSwap \o <<"swap">>)
  /\ InStages("swap") => (~dry_run /\ CheckPassed)
  /\ (dry_run /\ PastResolution)
       => /\ ~InStages("swap")
          /\ outcome = "ok"
               => /\ stages = PreSwap
                  /\ CheckPassed
                  /\ fs[TempExePath(windows)] = NewExe
                  /\ WasPrinted("upgrade_done")
          /\ (InStages("check") /\ CheckPassed) => (pc = "swap" \/ outcome = "ok")
          /\ Fatal => ~(InStages("check") /\ CheckPassed)

C12_Witness ==
  /\ dry_run
  /\ ~version.some
  /\ outcome = "ok"
  /\ stages = PreSwap
  /\ Redirects(responses) = 1

\* C13 as stated: with an output path and dry_run unset the old executable is
\* as it was, whatever the output path is.
C13_Original ==
  (output.some /\ ~dry_run) => fs[OldExePath] = InitFs[OldExePath]

\* C13, amended: with an output path and dry_run unset a successful run leaves
\* the verified executable at the output path, moved there or copied with the
\* source left in the staging directory; the old executable is never removed
\* or moved aside, and it keeps its bytes and permissions for every output
\* path other than its own.
C13_OutputPathInstall ==
  (output.some /\ ~dry_run)
    => /\ fs[OldExePath].exists
       /\ fs[OldExeBackupPath] = NoFile
       /\ output.val # OldExePath => fs[OldExePath] = InitFs[OldExePath]
       /\ (outcome = "ok" /\ PastResolution)
            => /\ fs[output.val] = NewExe
               /\ fs[TempExePath(windows)] \in {NoFile, NewExe}

C13_Witness ==
  /\ output.some
  /\ output.val # OldExePath
  /\ ~dry_run
  /\ outcome = "ok"
  /\ fs[output.val] = NewExe
  /\ fs[TempExePath(windows)] = NewExe

C15_StageOrder ==
  /\ IsPrefix(stages, PreSwap \o <<"swap">>)
  /\ pc = "build_client" => stages = <<>>
  /\ pc = "resolve" => stages = <<>>
  /\ pc = "download" => IsPrefix(stages, SubSeq(PreSwap, 1, 2)) /\ stages # <<>>
  /\ pc = "unpack" => stages = SubSeq(PreSwap, 1, 2)
  /\ pc = "permissions" => stages = SubSeq(PreSwap, 1, 3)
  /\ pc = "check" => stages = SubSeq(PreSwap, 1, 4)
  /\ pc = "swap" => stages = PreSwap
  /\ InStages("download") => PastResolution
  /\ InStages("unpack") => (ChainEnded /\ archive_data # "")
  /\ InStages("permissions")
       => (unpacked.io = "none" /\ unpacked.status_ok /\ unpacked.exe_exists)
  /\ (InStages("check") /\ ~InStages("swap")) => fs[TempExePath(windows)] = NewExe
  /\ InStages("swap") => CheckPassed
  /\ (\E p \in InstallPaths : fs[p] # InitFs[p])
       => (InStages("swap") /\ CheckPassed)

C15_Witness ==
  /\ stages = PreSwap \o <<"swap">>
  /\ outcome = "ok"
  /\ output.some
  /\ fs[OldExePath] # InitFs[OldExePath]

\* the file is not there, or is what a failed copy left of it
Gone(f) == ~f.exists \/ f.bytes = "truncated"

\* C16: a failing filesystem step of the permission copy or of the swap, the
\* copy after the failed rename included, makes the run return an I/O error,
\* never success, and nothing is rolled back: once replace_exe has removed the
\* old executable, or on Windows renamed it to the .old.exe sibling, a failure
\* leaves no executable at the installed path.
C16_NoRollback ==
  /\ (pc = "done" /\ stages = SubSeq(PreSwap, 1, 4))
       => /\ outcome = "err"
          /\ error = "io"
          /\ fs[TempDir].exists
          /\ fs[TempExePath(windows)].exists
          /\ \A p \in InstallPaths : fs[p] = InitFs[p]
  /\ InStages("swap")
       => /\ pc = "done"
          /\ outcome \in {"ok", "err"}
          /\ outcome = "err" => error = "io"
          /\ outcome = "ok" => fs[InstallTarget] = NewExe
  /\ (InStages("swap") /\ outcome = "err")
       => /\ fs[TempExePath(windows)] = NewExe
          /\ output.some => (fs[output.val] = InitFs[output.val]
                               \/ fs[output.val].bytes = "truncated")
          /\ ~output.some
               => \/ /\ fs[OldExePath] = InitFs[OldExePath]
                     /\ fs[OldExeBackupPath] = NoFile
                  \/ /\ Gone(fs[OldExePath])
                     /\ fs[OldExeBackupPath]
                          = IF windows THEN InitFs[OldExePath] ELSE NoFile

C16_Witness ==
  /\ InStages("swap")
  /\ outcome = "err"
  /\ ~output.some
  /\ ~windows
  /\ ~fs[OldExePath].exists
  /\ \A p \in Paths : fs[p].bytes # "old"

\* C17: unpack returns a path only when the extraction exited with success and
\* the executable is in the staging directory; a failed extraction, a missing
\* executable or an unsupported archive extension ends the process in a panic,
\* and neither verification nor installation is reached.
C17_UnpackAssertsHold ==
  /\ InStages("permissions")
       => /\ unpacked.io = "none"
          /\ unpacked.status_ok
          /\ unpacked.exe_exists
          /\ fs[TempDir].exists
  /\ pc = "permissions"
       => /\ fs[TempExePath(windows)].exists
          /\ fs[TempExePath(windows)].bytes = Payload(archive_data)
  /\ (unpacked.ran /\ unpacked.io = "none"
        /\ ~(unpacked.status_ok /\ unpacked.exe_exists))
       => /\ pc = "done"
          /\ outcome = "panic"
          /\ stages = SubSeq(PreSwap, 1, 3)
          /\ ~checked.ran
          /\ \A p \in InstallPaths : fs[p] = InitFs[p]
  /\ (unpacked.ran /\ unpacked.io = "none"
        /\ archive_ext(ARCHIVE_NAME(windows)) \notin {"gz", "zip"})
       => (outcome = "panic" /\ ~InStages("permissions"))

C17_Witness ==
  /\ unpacked.ran
  /\ unpacked.io = "none"
  /\ unpacked.status_ok
  /\ ~unpacked.exe_exists
  /\ outcome = "panic"

\* C18: after an in-place replace that ended without error the old
\* executable's path holds the verified new executable; on Windows the old
\* executable is kept at the .old.exe sibling, elsewhere it is gone; the new
\* executable was moved out of the staging directory, or copied and left there.
C18_InPlaceReplace ==
  (~output.some /\ ~dry_run /\ PastResolution /\ outcome = "ok")
    => /\ InStages("swap")
       /\ CheckPassed
       /\ checked.bytes = NewExe.bytes
       /\ fs[OldExePath] = NewExe
       /\ fs[OldExeBackupPath] = IF windows THEN InitFs[OldExePath] ELSE NoFile
       /\ \A p \in Paths :
            fs[p].bytes = "old" => (windows /\ p = OldExeBackupPath)
       /\ fs[TempExePath(windows)] \in {NoFile, NewExe}

C18_Witness ==
  /\ ~output.some
  /\ ~dry_run
  /\ windows
  /\ outcome = "ok"
  /\ fs[OldExePath] = NewExe
  /\ fs[OldExeBackupPath].exists
  /\ fs[TempExePath(windows)] = NewExe

\* the explicit version parses and differs from the current version
ExplicitOther ==
  /\ version.some
  /\ semver_parse(version.val).ok
  /\ semver_parse(version.val).ver # current_version

\* C19: without force an explicit version that parses and differs from the
\* current version, greater or lesser, goes on to download_package, and a run
\* that then succeeds has verified and installed it; on the latest-version
\* path a version less than or equal to the current one does not go on.
C19_ExplicitOnlyEquality ==
  /\ (ExplicitOther /\ ~force /\ InStages("resolve"))
       => /\ PastResolution
          /\ install_version = semver_parse(version.val).ver
          /\ ~WasPrinted("already_installed")
          /\ pc = "done" => InStages("download")
          /\ outcome = "ok"
               => /\ stages = FullRun
                  /\ CheckPassed
                  /\ ~dry_run => fs[InstallTarget] = NewExe
  /\ (~version.some /\ ~force /\ latest_version # <<>>
        /\ VersionGe(current_version, latest_version))
       => (~PastResolution /\ ~InStages("download"))

C19_Witness ==
  /\ ExplicitOther
  /\ ~force
  /\ ~dry_run
  /\ VersionLess(semver_parse(version.val).ver, current_version)
  /\ outcome = "ok"
  /\ fs[InstallTarget] = NewExe

\* C20: with no version given, a token of the release page that find_version
\* extracts and that is no semantic version ends the run in a panic, not in an
\* error value, before any download; nothing is installed.
C20_UnparsableTagPanics ==
  (~version.some /\ tag_found.ok /\ ~semver_parse(tag_found.val).ok)
    => /\ pc = "done"
       /\ outcome = "panic"
       /\ error = ""
       /\ ~PastResolution
       /\ fetches = <<>>
       /\ stages = <<"resolve">>
       /\ fs = InitFs

C20_Witness ==
  /\ ~version.some
  /\ tag_found.ok
  /\ Len(tag_found.val) > 5
  /\ ~semver_parse(tag_found.val).ok
  /\ outcome = "panic"

====
